---- MODULE Spec2Model ----
(***************************************************************************)
(* Model of the BIP300 monitor (src/src/server.rs): the redb tables, the   *)
(* block applier Bip300::connect_block with its coinbase-message loop, and *)
(* the gRPC handlers of the Validator service.                             *)
(***************************************************************************)
EXTENDS Integers, Sequences, FiniteSets, TLC

VARIABLES
    data_hash_to_sidechain_proposal, \* table: data hash -> SidechainProposal
    sidechain_number_to_sidechain,   \* table: slot number -> Sidechain
    sidechain_number_to_bundles,     \* table: slot number -> sequence of Bundle
    overflow_checks,                 \* build profile: arithmetic overflow panics (debug) or wraps (release)
    nblocks,                         \* number of ConnectBlock requests served so far
    pre,                             \* committed tables at the start of the latest ConnectBlock request
    last,                            \* the latest request and its outcome
    handlers,                        \* the ConnectBlock handlers that run concurrently
    writer                           \* the handler that holds the write transaction, if any

vars == <<data_hash_to_sidechain_proposal, sidechain_number_to_sidechain,
          sidechain_number_to_bundles, overflow_checks, nblocks, pre, last,
          handlers, writer>>

----------------------------------------------------------------------------
(* Bounds of the model. *)

MaxOutputs == 2     \* coinbase outputs per block
MaxBlocks == 1      \* ConnectBlock requests per behaviour

(* Program constants. *)

USED_MAX_AGE == 26300
USED_THRESHOLD == 13150
UNUSED_MAX_AGE == 2016
UNUSED_THRESHOLD == UNUSED_MAX_AGE - 201

ABSTAIN_ONE_BYTE == 255
ALARM_ONE_BYTE == 254
ABSTAIN_TWO_BYTES == 65535
ALARM_TWO_BYTES == 65534

U8 == 256
U16 == 65536

----------------------------------------------------------------------------
(* Input domains. *)

DataAA == <<170>>
DataBB == <<187>>
Datas == {DataAA, DataBB}

SidechainNumbers == {5, 7}

\* SHA256d of the data: injective on Datas; "hZZ" is a hash of no proposed data.
sha256d(data) == IF data = DataAA THEN "hAA" ELSE IF data = DataBB THEN "hBB" ELSE "hOther"

DataHashes == {"hAA", "hBB", "hZZ"}

BundleTxids == {"t1"}

\* Block heights: the height of the first block and the heights at which a
\* proposal made in that block reaches, and passes, either maximum age.
Genesis == 100
Heights == {Genesis, Genesis + UNUSED_MAX_AGE, Genesis + UNUSED_MAX_AGE + 1,
            Genesis + USED_MAX_AGE, Genesis + USED_MAX_AGE + 1}

----------------------------------------------------------------------------
(* Coinbase messages and output scripts. *)

M1ProposeSidechain(sn, data) ==
    [type |-> "M1ProposeSidechain", sidechain_number |-> sn, data |-> data]

M2AckSidechain(sn, hash) ==
    [type |-> "M2AckSidechain", sidechain_number |-> sn, data_hash |-> hash]

M3ProposeBundle(sn, txid) ==
    [type |-> "M3ProposeBundle", sidechain_number |-> sn, bundle_txid |-> txid]

M4AckBundles(variant, upvotes) ==
    [type |-> "M4AckBundles", variant |-> variant, upvotes |-> upvotes]

CoinbaseMessages ==
    {M1ProposeSidechain(5, DataAA), M1ProposeSidechain(7, DataAA),
     M1ProposeSidechain(5, DataBB)}
    \cup {M2AckSidechain(5, "hAA"), M2AckSidechain(7, "hAA"),
          M2AckSidechain(5, "hBB"), M2AckSidechain(5, "hZZ")}
    \cup {M3ProposeBundle(5, "t1")}
    \cup {M4AckBundles("RepeatPrevious", <<>>), M4AckBundles("LeadingBy50", <<>>),
          M4AckBundles("OneByte", <<0>>), M4AckBundles("TwoBytes", <<0>>)}

\* An output script either encodes a coinbase message or is not a BIP300 script.
Script(message) == [encodes |-> "message", message |-> message]
Garbage == [encodes |-> "nothing"]

Scripts == {Script(m) : m \in CoinbaseMessages} \cup {Garbage}

parse_coinbase_script(script) ==
    IF script.encodes = "message"
    THEN [ok |-> TRUE, message |-> script.message]
    ELSE [ok |-> FALSE]

RECURSIVE SeqsUpTo(_, _)
SeqsUpTo(S, n) ==
    IF n = 0 THEN {<<>>}
    ELSE LET shorter == SeqsUpTo(S, n - 1)
         IN shorter \cup {Append(s, x) : s \in {t \in shorter : Len(t) = n - 1}, x \in S}

Coinbases == {[output |-> o] : o \in SeqsUpTo(Scripts, MaxOutputs)}

\* A block is its transaction list; only txdata[0], the coinbase, is read.
Blocks == {[txdata |-> <<>>]} \cup {[txdata |-> <<c>>] : c \in Coinbases}

----------------------------------------------------------------------------
(* redb tables as functions on their key sets. *)

EmptyTable == <<>>

Insert(table, key, value) ==
    [k \in DOMAIN table \cup {key} |-> IF k = key THEN value ELSE table[k]]

Remove(table, key) ==
    [k \in DOMAIN table \ {key} |-> table[k]]

Database ==
    [proposal |-> data_hash_to_sidechain_proposal,
     sidechain |-> sidechain_number_to_sidechain,
     bundles |-> sidechain_number_to_bundles]

EmptyDatabase ==
    [proposal |-> EmptyTable, sidechain |-> EmptyTable, bundles |-> EmptyTable]

----------------------------------------------------------------------------
(* Fixed-width arithmetic: with overflow checks the operation panics, without *)
(* them it wraps.                                                             *)

AddU16(a, b) ==
    IF a + b < U16 THEN [panic |-> FALSE, value |-> a + b]
    ELSE [panic |-> overflow_checks, value |-> (a + b) % U16]

\* A u32 difference, kept as its two 16-bit halves (value = hi * 2^16 + lo):
\* below zero it wraps to 2^32 - (b - a) = (2^32 - 1) - (b - a - 1).
SubU32(a, b) ==
    IF a >= b
    THEN [panic |-> FALSE, hi |-> (a - b) \div U16, lo |-> (a - b) % U16]
    ELSE [panic |-> overflow_checks,
          hi |-> (U16 - 1) - ((b - a - 1) \div U16),
          lo |-> (U16 - 1) - ((b - a - 1) % U16)]

\* x > n for a u32 x in halves and a constant n of 16 bits.
GtU32(x, n) == x.hi > 0 \/ x.lo > n

\* The outcome of one coinbase message: effect names the branch that was taken.
Ok(txn, effect) == [status |-> "ok", txn |-> txn, effect |-> effect]
Panicked(txn) == [status |-> "panic", txn |-> txn, effect |-> "panic"]

----------------------------------------------------------------------------
(* Bip300::connect_block, one match arm per coinbase message.  Each takes  *)
(* the tables as the write transaction sees them and returns the outcome   *)
(* and the tables after it.                                                *)

\* M1 without the duplicate check: the later proposal overwrites the stored one.
ProposeSidechain_overwrites(txn, message, height) ==
    Ok([txn EXCEPT !.proposal =
           Insert(@, sha256d(message.data),
                  [sidechain_number |-> message.sidechain_number,
                   data |-> message.data,
                   vote_count |-> 0,
                   proposal_height |-> height])],
       IF sha256d(message.data) \in DOMAIN txn.proposal THEN "duplicate" ELSE "proposed")

\* M1: a proposal whose data hash is already a key is skipped.
ProposeSidechain(txn, message, height) ==
    LET data_hash == sha256d(message.data)
    IN IF data_hash \in DOMAIN txn.proposal
       THEN Ok(txn, "duplicate")
       ELSE LET sidechain_proposal ==
                    [sidechain_number |-> message.sidechain_number,
                     data |-> message.data,
                     vote_count |-> 0,
                     proposal_height |-> height]
            IN Ok([txn EXCEPT !.proposal = Insert(@, data_hash, sidechain_proposal)],
                  "proposed")

\* The expiry decision with the age compared by >= instead of >.
M2Failed_at_max_age(used, age, vote_count) ==
    \/ used /\ GtU32(age, USED_MAX_AGE - 1) /\ vote_count <= USED_THRESHOLD
    \/ ~used /\ GtU32(age, UNUSED_MAX_AGE - 1) /\ vote_count <= UNUSED_THRESHOLD

\* The promotion / expiry decision taken after the vote of an M2 is stored.
M2Failed(used, age, vote_count) ==
    \/ used /\ GtU32(age, USED_MAX_AGE) /\ vote_count <= USED_THRESHOLD
    \/ ~used /\ GtU32(age, UNUSED_MAX_AGE) /\ vote_count <= UNUSED_THRESHOLD

M2Succeeded(used, vote_count) ==
    \/ used /\ vote_count > USED_THRESHOLD
    \/ ~used /\ vote_count > UNUSED_THRESHOLD

\* The activation guarded by an empty slot.
M2Activates_only_unused(used, vote_count) == ~used

\* The increment counting a vote twice.
M2Increment_twice(vote_count) == AddU16(vote_count, 2)

\* The activation a vote late: a proposal with 13151 votes stays stored.
M2Activates_one_later(used, vote_count) == vote_count > USED_THRESHOLD + 1

\* The guard of the activation inside the succeeded branch.
M2Activates(used, vote_count) == vote_count > USED_THRESHOLD

M2Increment(vote_count) == AddU16(vote_count, 1)

\* The slot test dropped: an M2 votes for the stored proposal whatever slot
\* it names.
M2SameSlot_any_slot(stored, message) == TRUE

\* The slot test of an M2 against the stored proposal.
M2SameSlot(stored, message) == stored.sidechain_number = message.sidechain_number

\* M2: vote for a stored proposal of the same slot, then promote or expire it.
AckSidechain(txn, message, height) ==
    IF message.data_hash \notin DOMAIN txn.proposal THEN Ok(txn, "skipped")
    ELSE IF ~M2SameSlot(txn.proposal[message.data_hash], message)
    THEN Ok(txn, "skipped")
    ELSE
    LET stored == txn.proposal[message.data_hash]
        inc == M2Increment(stored.vote_count)
        sidechain_proposal == [stored EXCEPT !.vote_count = inc.value]
        txn1 == [txn EXCEPT !.proposal = Insert(@, message.data_hash, sidechain_proposal)]
        age == SubU32(height, sidechain_proposal.proposal_height)
        used == sidechain_proposal.sidechain_number \in DOMAIN txn1.sidechain
        failed == M2Failed(used, age, sidechain_proposal.vote_count)
        succeeded == M2Succeeded(used, sidechain_proposal.vote_count)
        sidechain ==
            [sidechain_number |-> sidechain_proposal.sidechain_number,
             data |-> sidechain_proposal.data,
             proposal_height |-> sidechain_proposal.proposal_height,
             activation_height |-> height,
             vote_count |-> sidechain_proposal.vote_count]
    IN IF inc.panic THEN Panicked(txn)
       ELSE IF age.panic THEN Panicked(txn1)
       ELSE IF failed
       THEN Ok([txn1 EXCEPT !.proposal = Remove(@, message.data_hash)], "expired")
       ELSE IF succeeded /\ M2Activates(used, sidechain_proposal.vote_count)
       THEN Ok([txn1 EXCEPT
                  !.sidechain = Insert(@, sidechain.sidechain_number, sidechain),
                  !.proposal = Remove(@, message.data_hash)], "activated")
       ELSE Ok(txn1, "voted")

\* M3 starting the list of a slot that has none.
ProposeBundle_creates_list(txn, message) ==
    LET bundle == [bundle_txid |-> message.bundle_txid, vote_count |-> 0]
        bundles == IF message.sidechain_number \in DOMAIN txn.bundles
                   THEN txn.bundles[message.sidechain_number]
                   ELSE <<>>
    IN Ok([txn EXCEPT !.bundles =
              Insert(@, message.sidechain_number, Append(bundles, bundle))],
          "appended")

\* M3: append a bundle to the list of a slot that has a list.
ProposeBundle(txn, message) ==
    IF message.sidechain_number \notin DOMAIN txn.bundles THEN Ok(txn, "skipped")
    ELSE LET bundle == [bundle_txid |-> message.bundle_txid, vote_count |-> 0]
         IN Ok([txn EXCEPT !.bundles =
                   Insert(@, message.sidechain_number,
                          Append(txn.bundles[message.sidechain_number], bundle))],
                "appended")

\* The alarm without the test for 0: the decrement of a u16 at 0 wraps.
Alarm_wraps(bundles) ==
    [i \in DOMAIN bundles |-> [bundles[i] EXCEPT !.vote_count = (@ + U16 - 1) % U16]]

\* The alarm: every bundle of the list loses a vote, saturating at 0.
Alarm(bundles) ==
    [i \in DOMAIN bundles |->
        IF bundles[i].vote_count > 0
        THEN [bundles[i] EXCEPT !.vote_count = @ - 1]
        ELSE bundles[i]]

\* One entry of an M4 vector with the vote taken as a 1-based index.
AckBundlesEntry_one_based(txn, index, vote, abstain, alarm) ==
    LET sidechain_number == index % U8
    IN IF vote = abstain THEN Ok(txn, "acked")
       ELSE IF sidechain_number \notin DOMAIN txn.bundles THEN Ok(txn, "acked")
       ELSE LET bundles == txn.bundles[sidechain_number]
            IN IF vote = alarm
               THEN Ok([txn EXCEPT !.bundles = Insert(@, sidechain_number, Alarm(bundles))],
                       "acked")
               ELSE IF vote >= 1 /\ vote <= Len(bundles)
               THEN Ok([txn EXCEPT !.bundles =
                          Insert(@, sidechain_number,
                                 [bundles EXCEPT ![vote].vote_count = @ + 1])],
                       "acked")
               ELSE Ok(txn, "acked")

\* One entry of an M4 vector: position index (0-based) votes for slot index.
AckBundlesEntry(txn, index, vote, abstain, alarm) ==
    LET sidechain_number == index % U8
    IN IF vote = abstain THEN Ok(txn, "acked")
       ELSE IF sidechain_number \notin DOMAIN txn.bundles THEN Ok(txn, "acked")
       ELSE LET bundles == txn.bundles[sidechain_number]
            IN IF vote = alarm
               THEN Ok([txn EXCEPT !.bundles = Insert(@, sidechain_number, Alarm(bundles))],
                       "acked")
               ELSE IF vote < Len(bundles)
               THEN LET inc == AddU16(bundles[vote + 1].vote_count, 1)
                    IN IF inc.panic THEN Panicked(txn)
                       ELSE Ok([txn EXCEPT !.bundles =
                                  Insert(@, sidechain_number,
                                         [bundles EXCEPT ![vote + 1].vote_count = inc.value])],
                               "acked")
               ELSE Ok([txn EXCEPT !.bundles = Insert(@, sidechain_number, bundles)],
                       "acked")

RECURSIVE AckBundlesVector(_, _, _, _, _)
AckBundlesVector(txn, upvotes, i, abstain, alarm) ==
    IF i > Len(upvotes) THEN Ok(txn, "acked")
    ELSE LET r == AckBundlesEntry(txn, i - 1, upvotes[i], abstain, alarm)
         IN IF r.status # "ok" THEN r
            ELSE AckBundlesVector(r.txn, upvotes, i + 1, abstain, alarm)

\* M4: the two unimplemented variants panic (todo!()).
AckBundles(txn, message) ==
    IF message.variant \in {"LeadingBy50", "RepeatPrevious"} THEN Panicked(txn)
    ELSE IF message.variant = "OneByte"
    THEN AckBundlesVector(txn, message.upvotes, 1, ABSTAIN_ONE_BYTE, ALARM_ONE_BYTE)
    ELSE AckBundlesVector(txn, message.upvotes, 1, ABSTAIN_TWO_BYTES, ALARM_TWO_BYTES)

ApplyMessage(txn, message, height) ==
    IF message.type = "M1ProposeSidechain" THEN ProposeSidechain(txn, message, height)
    ELSE IF message.type = "M2AckSidechain" THEN AckSidechain(txn, message, height)
    ELSE IF message.type = "M3ProposeBundle" THEN ProposeBundle(txn, message)
    ELSE AckBundles(txn, message)

\* The loop over the coinbase outputs, from output i on.  trace lists the
\* tables of the write transaction before each message that completed and
\* after the last of them; effects lists the branch each of them took.
\* AfterMessage continues the loop with the outcome r of output i.
RECURSIVE ProcessOutputs(_, _, _, _, _, _), AfterMessage(_, _, _, _, _, _)
ProcessOutputs(txn, output, i, height, trace, effects) ==
    IF i > Len(output)
    THEN [status |-> "ok", txn |-> txn, trace |-> trace, effects |-> effects]
    ELSE IF ~parse_coinbase_script(output[i]).ok
    THEN [status |-> "parse_error", txn |-> txn, trace |-> trace, effects |-> effects]
    ELSE AfterMessage(ApplyMessage(txn, parse_coinbase_script(output[i]).message, height),
                      output, i, height, trace, effects)

AfterMessage(r, output, i, height, trace, effects) ==
    IF r.status # "ok"
    THEN [status |-> r.status, txn |-> r.txn, trace |-> trace, effects |-> effects]
    ELSE ProcessOutputs(r.txn, output, i + 1, height,
                        Append(trace, r.txn), Append(effects, r.effect))

\* The end of connect_block with every exit path publishing the write
\* transaction.
Finish_commits_on_failure(db, r) ==
    [status |-> r.status, db |-> r.txn,
     txn |-> r.txn, trace |-> r.trace, effects |-> r.effects]

\* The end of connect_block: commit() publishes the write transaction when the
\* loop completed; an error return or a panic drops it.
Finish(db, r) ==
    [status |-> r.status,
     db |-> IF r.status = "ok" THEN r.txn ELSE db,
     txn |-> r.txn, trace |-> r.trace, effects |-> r.effects]

\* The proposals of a table that are not older than the maximum age of an
\* empty slot at the given height.
NotExpired(proposals, height) ==
    [k \in {j \in DOMAIN proposals :
                ~GtU32(SubU32(height, proposals[j].proposal_height), UNUSED_MAX_AGE)}
        |-> proposals[k]]

\* connect_block with an expiry by height: whatever the block carries, the
\* proposals past the maximum age leave the committed table.
connect_block_sweeps(db, block, height) ==
    IF Len(block.txdata) = 0
    THEN [status |-> "panic", db |-> db, txn |-> db, trace |-> <<db>>, effects |-> <<>>]
    ELSE [Finish(db, ProcessOutputs(db, block.txdata[1].output, 1, height, <<db>>, <<>>))
             EXCEPT !.db.proposal = NotExpired(@, height)]

\* Bip300::connect_block: db is the committed tables.  The result carries the
\* committed tables after the call (db) and the tables the write transaction
\* held when the call ended (txn).
connect_block(db, block, height) ==
    IF Len(block.txdata) = 0
    THEN [status |-> "panic", db |-> db, txn |-> db, trace |-> <<db>>, effects |-> <<>>]
    ELSE Finish(db, ProcessOutputs(db, block.txdata[1].output, 1, height, <<db>>, <<>>))

\* Bip300::disconnect_block is todo!(): it panics and touches no table.
disconnect_block(db, block) == [status |-> "panic", db |-> db]

----------------------------------------------------------------------------
(* The requests of the Validator service. *)

\* request.block: bytes that decode as a block, or bytes that do not.
Encoded(block) == [decodes |-> TRUE, block |-> block]
Undecodable == [decodes |-> FALSE]

BlockBytes == {Encoded(b) : b \in Blocks} \cup {Undecodable}

consensus_decode(bytes) ==
    IF bytes.decodes THEN [ok |-> TRUE, block |-> bytes.block] ELSE [ok |-> FALSE]

\* The answer of the handler to the outcome r of the applier: unwrap() panics
\* on an error.
Respond(r) ==
    [response |-> IF r.status = "ok" THEN "ok" ELSE "panic",
     status |-> r.status, db |-> r.db, txn |-> r.txn, trace |-> r.trace,
     effects |-> r.effects]

\* What the handler Validator::connect_block does with a request: both of its
\* unwrap() calls panic on an error.
HandleConnectBlock(db, bytes, height) ==
    IF ~consensus_decode(bytes).ok
    THEN [response |-> "panic", status |-> "decode_error", db |-> db, txn |-> db,
          trace |-> <<db>>, effects |-> <<>>]
    ELSE Respond(connect_block(db, consensus_decode(bytes).block, height))

\* What the handler Validator::disconnect_block does: it answers, and nothing else.
HandleDisconnectBlock(db, bytes) == [response |-> "ok", db |-> db]

----------------------------------------------------------------------------
(* Initial states: tables that connected blocks produce.  A proposal is     *)
(* stored under the hash of its data with at most USED_THRESHOLD votes (an  *)
(* M1 followed by that many M2s); a sidechain is activated by the vote that *)
(* passes USED_THRESHOLD.                                                   *)

InitVotes == {0, UNUSED_THRESHOLD - 1, UNUSED_THRESHOLD, USED_THRESHOLD - 1, USED_THRESHOLD}

InitHeights == {Genesis, Genesis + UNUSED_MAX_AGE + 1}

InitProposals ==
    {EmptyTable} \cup
    {Insert(EmptyTable, sha256d(d),
            [sidechain_number |-> sn, data |-> d, vote_count |-> v,
             proposal_height |-> h]) :
        sn \in SidechainNumbers, d \in Datas, v \in InitVotes, h \in InitHeights}

InitSidechains ==
    {EmptyTable,
     Insert(EmptyTable, 5,
            [sidechain_number |-> 5, data |-> DataAA, proposal_height |-> Genesis,
             activation_height |-> Genesis, vote_count |-> USED_THRESHOLD + 1])}

ActiveHashes(sidechains) == {sha256d(sidechains[s].data) : s \in DOMAIN sidechains}

\* Requests served one at a time: no handler runs beside the one served.
NoHandlers == <<>>
NoWriter == 0

NoRequest == [op |-> "none", bytes |-> Undecodable, height |-> 0,
              status |-> "none", response |-> "none", txn |-> EmptyDatabase,
              trace |-> <<>>, effects |-> <<>>]

Init ==
    /\ data_hash_to_sidechain_proposal \in InitProposals
    /\ sidechain_number_to_sidechain \in InitSidechains
    /\ DOMAIN data_hash_to_sidechain_proposal
           \cap ActiveHashes(sidechain_number_to_sidechain) = {}
    /\ sidechain_number_to_bundles = EmptyTable
    /\ overflow_checks \in BOOLEAN
    /\ nblocks = 0
    /\ pre = Database
    /\ last = NoRequest
    /\ handlers = NoHandlers
    /\ writer = NoWriter

----------------------------------------------------------------------------
(* Actions: one per request handler. *)

\* The state after a ConnectBlock request with outcome r.
Served(r, bytes, height) ==
    /\ data_hash_to_sidechain_proposal' = r.db.proposal
    /\ sidechain_number_to_sidechain' = r.db.sidechain
    /\ sidechain_number_to_bundles' = r.db.bundles
    /\ pre' = Database
    /\ last' = [op |-> "ConnectBlock", bytes |-> bytes, height |-> height,
                status |-> r.status, response |-> r.response, txn |-> r.txn,
                trace |-> r.trace, effects |-> r.effects]
    /\ nblocks' = nblocks + 1
    /\ UNCHANGED <<overflow_checks, handlers, writer>>

ConnectBlock ==
    /\ nblocks < MaxBlocks
    /\ \E bytes \in BlockBytes, height \in Heights :
          Served(HandleConnectBlock(Database, bytes, height), bytes, height)

\* The state after a DisconnectBlock request with outcome r.
Unserved(r, bytes) ==
    /\ data_hash_to_sidechain_proposal' = r.db.proposal
    /\ sidechain_number_to_sidechain' = r.db.sidechain
    /\ sidechain_number_to_bundles' = r.db.bundles
    /\ last' = [op |-> "DisconnectBlock", bytes |-> bytes, height |-> last.height,
                status |-> last.status, response |-> r.response, txn |-> r.db,
                trace |-> <<>>, effects |-> <<>>]
    /\ UNCHANGED <<overflow_checks, nblocks, pre, handlers, writer>>

\* The request names the block of the latest ConnectBlock (the tip being
\* undone); the handler never reads it.
DisconnectBlock ==
    /\ last.op = "ConnectBlock"
    /\ Unserved(HandleDisconnectBlock(Database, last.bytes), last.bytes)

Next == ConnectBlock \/ DisconnectBlock

Spec == Init /\ [][Next]_vars

----------------------------------------------------------------------------
(* The scenario "propose, then ack block after block": from the empty      *)
(* store, the block at height Genesis proposes slot 5 with DataAA, each of *)
(* the next USED_THRESHOLD + 1 blocks carries one M2 for it, and the       *)
(* blocks after those propose DataAA again.                                *)

S1Blocks == USED_THRESHOLD + 3

InitS1 ==
    /\ data_hash_to_sidechain_proposal = EmptyTable
    /\ sidechain_number_to_sidechain = EmptyTable
    /\ sidechain_number_to_bundles = EmptyTable
    /\ overflow_checks \in BOOLEAN
    /\ nblocks = 0
    /\ pre = Database
    /\ last = NoRequest
    /\ handlers = NoHandlers
    /\ writer = NoWriter

S1Block(n) ==
    [txdata |-> <<[output |-> <<Script(IF n = 0 \/ n > USED_THRESHOLD + 1
                                       THEN M1ProposeSidechain(5, DataAA)
                                       ELSE M2AckSidechain(5, "hAA"))>>]>>]

ConnectBlockS1 ==
    /\ nblocks < S1Blocks
    /\ Served(HandleConnectBlock(Database, Encoded(S1Block(nblocks)), Genesis + nblocks),
              Encoded(S1Block(nblocks)), Genesis + nblocks)

NextS1 == ConnectBlockS1

SpecS1 == InitS1 /\ [][NextS1]_vars

----------------------------------------------------------------------------
(* Reading the latest request. *)

Connected == last.op = "ConnectBlock"

\* The coinbase outputs of the block of the latest request.
Outputs ==
    IF last.bytes.decodes /\ Len(last.bytes.block.txdata) > 0
    THEN last.bytes.block.txdata[1].output
    ELSE <<>>

\* The outputs whose message ran to completion; message i took the write
\* transaction from Before(i) to After(i).
Applied == IF Connected THEN 1 .. Len(last.effects) ELSE {}
Message(i) == Outputs[i].message
Before(i) == last.trace[i]
After(i) == last.trace[i + 1]
Effect(i) == last.effects[i]

\* Message i is an M2 naming a stored proposal and that proposal's slot.
MatchingM2(i) ==
    /\ Message(i).type = "M2AckSidechain"
    /\ Message(i).data_hash \in DOMAIN Before(i).proposal
    /\ Before(i).proposal[Message(i).data_hash].sidechain_number
           = Message(i).sidechain_number

Stored(i) == Before(i).proposal[Message(i).data_hash]
SlotUsed(i) == Message(i).sidechain_number \in DOMAIN Before(i).sidechain

\* The Sidechain record a promotion by message i writes.
Promoted(i) ==
    [sidechain_number |-> Stored(i).sidechain_number,
     data |-> Stored(i).data,
     proposal_height |-> Stored(i).proposal_height,
     activation_height |-> last.height,
     vote_count |-> Stored(i).vote_count + 1]

----------------------------------------------------------------------------
(* Claims. *)

\* C1: atomicity of connect_block.  When the application of a block fails (a
\* coinbase output does not parse, or the code panics at an unimplemented M4
\* variant or elsewhere), the committed tables equal the tables before the
\* call, also when earlier outputs of the block had changed tables inside the
\* write transaction.
C1_Atomicity ==
    (Connected /\ last.status # "ok") => Database = pre

\* A block failed on a parse error after an earlier output had changed the
\* tables of the write transaction.
C1_Witness ==
    /\ Connected
    /\ last.status = "parse_error"
    /\ last.txn # pre
    /\ Database = pre

\* C2: reorg reversibility.  After connect_block(b, h) succeeded, the
\* DisconnectBlock request for b leaves every table as it was before the
\* connect.
C2_ConnectThenDisconnect ==
    (last.op = "DisconnectBlock" /\ last.status = "ok") => Database = pre

\* C3: empty-slot activation.  When an M2 raises the vote_count of a matching
\* proposal above UNUSED_THRESHOLD (1815) and the proposal's slot holds no
\* activated sidechain, connect_block writes the slot's Sidechain with the
\* proposal's data and vote_count and activation_height = the block's height,
\* and removes the proposal (so the 1816th ack block of the scenario activates
\* slot 5 with vote_count 1816 and empties the proposal table).
C3_EmptySlotActivation ==
    \A i \in Applied :
        (MatchingM2(i) /\ ~SlotUsed(i) /\ Stored(i).vote_count + 1 > 1815)
        => /\ Message(i).sidechain_number \in DOMAIN After(i).sidechain
           /\ After(i).sidechain[Message(i).sidechain_number] = Promoted(i)
           /\ Message(i).data_hash \notin DOMAIN After(i).proposal

\* The age of proposal p at the block's height, as the code's u32 difference.
Age(p) == SubU32(last.height, p.proposal_height)

C5_Disjoint ==
    DOMAIN data_hash_to_sidechain_proposal
        \cap ActiveHashes(sidechain_number_to_sidechain) = {}

C7_Monotone ==
    \A i \in Applied :
        /\ MatchingM2(i) =>
              /\ Message(i).data_hash \in DOMAIN After(i).proposal
                 => After(i).proposal[Message(i).data_hash]
                        = [Stored(i) EXCEPT !.vote_count = Stored(i).vote_count + 1]
              /\ Effect(i) = "activated"
                 => After(i).sidechain[Message(i).sidechain_number].vote_count
                        = Stored(i).vote_count + 1
              /\ Stored(i).vote_count + 1 > 13150
                 => Message(i).data_hash \notin DOMAIN After(i).proposal
        /\ \A k \in DOMAIN Before(i).proposal \cap DOMAIN After(i).proposal :
              After(i).proposal[k].vote_count >= Before(i).proposal[k].vote_count

\* Two M2s of one committed block each raised the same proposal by one.
C7_Witness ==
    /\ Connected /\ last.status = "ok"
    /\ Len(last.effects) = 2
    /\ MatchingM2(1) /\ MatchingM2(2)
    /\ Message(1).data_hash = Message(2).data_hash
    /\ Message(2).data_hash \in DOMAIN data_hash_to_sidechain_proposal
    /\ data_hash_to_sidechain_proposal[Message(2).data_hash].vote_count
           = pre.proposal[Message(2).data_hash].vote_count + 2

\* C8: a duplicate M1 is ignored.  An M1 whose data hash is already a key of
\* the proposal table changes no table, whichever sidechain_number it names
\* and whether the earlier M1 was in this coinbase or in an earlier block; a
\* committed block made of the same M1 twice, on a table without that hash,
\* adds exactly one proposal, with vote_count 0.
C8_DuplicateM1 ==
    /\ \A i \in Applied :
          (Message(i).type = "M1ProposeSidechain"
             /\ sha256d(Message(i).data) \in DOMAIN Before(i).proposal)
          => After(i) = Before(i)
    /\ (Connected /\ last.status = "ok" /\ Len(Outputs) = 2
          /\ Outputs[1] = Outputs[2]
          /\ Message(1).type = "M1ProposeSidechain"
          /\ sha256d(Message(1).data) \notin DOMAIN pre.proposal)
       => /\ DOMAIN data_hash_to_sidechain_proposal
                = DOMAIN pre.proposal \cup {sha256d(Message(1).data)}
          /\ data_hash_to_sidechain_proposal[sha256d(Message(1).data)]
                = [sidechain_number |-> Message(1).sidechain_number,
                   data |-> Message(1).data,
                   vote_count |-> 0,
                   proposal_height |-> last.height]
          /\ \A k \in DOMAIN pre.proposal :
                data_hash_to_sidechain_proposal[k] = pre.proposal[k]

\* A committed block proposed DataAA for slot 5 and then for slot 7; the
\* second M1 was skipped and the proposal kept slot 5.
C8_Witness ==
    /\ Connected /\ last.status = "ok"
    /\ Len(last.effects) = 2
    /\ Message(1) = M1ProposeSidechain(5, DataAA)
    /\ Message(2) = M1ProposeSidechain(7, DataAA)
    /\ last.effects = <<"proposed", "duplicate">>
    /\ data_hash_to_sidechain_proposal["hAA"].sidechain_number = 5
    /\ data_hash_to_sidechain_proposal["hAA"].vote_count = 0

\* The outputs of the block that parse as messages of the given type.
OutputsOfType(type) ==
    {i \in DOMAIN Outputs :
        Outputs[i].encodes = "message" /\ Outputs[i].message.type = type}

\* C9: duplicate M2 rejection.  A block whose coinbase carries two M2s with
\* the same (sidechain_number, data_hash) is rejected with an error and the
\* tables are unchanged.
C9_DuplicateM2Rejected ==
    (Connected
       /\ \E i, j \in OutputsOfType("M2AckSidechain") :
             i # j /\ Outputs[i].message = Outputs[j].message)
    => (last.status # "ok" /\ Database = pre)

\* C10: at most one M4 per block.  A block whose coinbase carries more than
\* one M4 is not applied.
C10_SingleM4 ==
    (Connected /\ Cardinality(OutputsOfType("M4AckBundles")) > 1)
    => (last.status # "ok" /\ Database = pre)

----------------------------------------------------------------------------
\* The bundle list of slot s in the tables db: an absent list reads as empty.
BundlesOf(db, s) == IF s \in DOMAIN db.bundles THEN db.bundles[s] ELSE <<>>

\* C11: M3 on an activated slot appends.  Once slot s holds an activated
\* sidechain, an M3(s, bundle_txid) of a connected block appends
\* Bundle{bundle_txid, vote_count = 0} at the end of the bundle list of s; an
\* M3 for a slot that is not activated changes nothing.
C11_M3Appends ==
    \A i \in Applied :
        Message(i).type = "M3ProposeBundle" =>
            IF Message(i).sidechain_number \in DOMAIN Before(i).sidechain
            THEN /\ Message(i).sidechain_number \in DOMAIN After(i).bundles
                 /\ After(i).bundles[Message(i).sidechain_number]
                       = Append(BundlesOf(Before(i), Message(i).sidechain_number),
                                [bundle_txid |-> Message(i).bundle_txid, vote_count |-> 0])
            ELSE After(i) = Before(i)

----------------------------------------------------------------------------
(* The M3 and M4 arms on a store that holds bundle lists.  No coinbase     *)
(* message creates a list, so the lists are those of the database file     *)
(* that Bip300::new opens: slot 0 has no list or a list of up to two       *)
(* bundles, slot 1 has no list or a list of one bundle.                    *)

MaxVector == 2      \* entries per M4 vector

Activated(sn, data) ==
    [sidechain_number |-> sn, data |-> data, proposal_height |-> Genesis,
     activation_height |-> Genesis, vote_count |-> USED_THRESHOLD + 1]

Bundle(txid, vote_count) == [bundle_txid |-> txid, vote_count |-> vote_count]

InitBundleVotes == {0, 1}

InitBundleLists ==
    {<<>>}
    \cup {<<Bundle("t1", v)>> : v \in InitBundleVotes}
    \cup {<<Bundle("t1", v), Bundle("t2", w)>> : v \in InitBundleVotes, w \in InitBundleVotes}

InitBundleTables ==
    LET slot0 == {EmptyTable} \cup {Insert(EmptyTable, 0, l) : l \in InitBundleLists}
    IN slot0 \cup {Insert(t, 1, <<Bundle("t1", 1)>>) : t \in slot0}

InitBundles ==
    /\ data_hash_to_sidechain_proposal = EmptyTable
    /\ sidechain_number_to_sidechain
          = Insert(Insert(EmptyTable, 0, Activated(0, DataAA)), 1, Activated(1, DataBB))
    /\ sidechain_number_to_bundles \in InitBundleTables
    /\ overflow_checks \in BOOLEAN
    /\ nblocks = 0
    /\ pre = Database
    /\ last = NoRequest
    /\ handlers = NoHandlers
    /\ writer = NoWriter

\* Votes of a vector: the indices of a list of two, the first index past it,
\* a byte that is only a sentinel in the one-byte vector, and the sentinels.
OneByteVotes == {0, 1, 2, ALARM_ONE_BYTE, ABSTAIN_ONE_BYTE}
TwoBytesVotes == {0, 1, ABSTAIN_ONE_BYTE, ALARM_TWO_BYTES, ABSTAIN_TWO_BYTES}

VectorMessages ==
    {M4AckBundles("OneByte", u) : u \in SeqsUpTo(OneByteVotes, MaxVector)}
    \cup {M4AckBundles("TwoBytes", u) : u \in SeqsUpTo(TwoBytesVotes, MaxVector)}

\* A coinbase of one M4 vector (or an output that stops the block), alone or
\* after an M3 for slot 0, 1 or 5.
BundleCoinbases ==
    LET m4 == {Script(m) : m \in VectorMessages}
                 \cup {Script(M4AckBundles("RepeatPrevious", <<>>)), Garbage}
        m3 == {Script(M3ProposeBundle(sn, "t1")) : sn \in {0, 1, 5}}
    IN {[output |-> <<s>>] : s \in m4} \cup {[output |-> <<p, s>>] : p \in m3, s \in m4}

BundleBlocks == {[txdata |-> <<c>>] : c \in BundleCoinbases}

\* One block per behaviour: its coinbase holds the sequence of messages.
ConnectBlockBundles ==
    /\ nblocks = 0
    /\ \E block \in BundleBlocks :
          Served(HandleConnectBlock(Database, Encoded(block), Genesis),
                 Encoded(block), Genesis)

NextBundles == ConnectBlockBundles

SpecBundles == InitBundles /\ [][NextBundles]_vars

\* Message i is an M4 vector; its sentinels.
IsVector(i) ==
    Message(i).type = "M4AckBundles" /\ Message(i).variant \in {"OneByte", "TwoBytes"}

AbstainOf(i) ==
    IF Message(i).variant = "OneByte" THEN ABSTAIN_ONE_BYTE ELSE ABSTAIN_TWO_BYTES

AlarmOf(i) ==
    IF Message(i).variant = "OneByte" THEN ALARM_ONE_BYTE ELSE ALARM_TWO_BYTES

\* The entry of vector i for slot s (vectors of at most 256 entries).
HasEntry(i, s) == s < Len(Message(i).upvotes)
Entry(i, s) == Message(i).upvotes[s + 1]

\* Two lists with the same length and the same bundle_txids in the same order.
SameShape(l1, l2) ==
    /\ Len(l1) = Len(l2)
    /\ \A k \in DOMAIN l1 : l1[k].bundle_txid = l2[k].bundle_txid

C13_AlarmSaturates ==
    /\ \A i \in Applied :
          IsVector(i) =>
              \A s \in DOMAIN Before(i).bundles :
                  (HasEntry(i, s) /\ Entry(i, s) = AlarmOf(i))
                  => /\ s \in DOMAIN After(i).bundles
                     /\ SameShape(Before(i).bundles[s], After(i).bundles[s])
                     /\ \A k \in DOMAIN Before(i).bundles[s] :
                           After(i).bundles[s][k].vote_count
                              = IF Before(i).bundles[s][k].vote_count > 0
                                THEN Before(i).bundles[s][k].vote_count - 1
                                ELSE 0
    /\ \A s \in DOMAIN sidechain_number_to_bundles :
          \A k \in DOMAIN sidechain_number_to_bundles[s] :
              sidechain_number_to_bundles[s][k].vote_count # 65535

\* A committed TwoBytes alarm for slot 0, whose list held a bundle with one
\* vote and a bundle with none: both are at 0.
C13_Witness ==
    /\ Connected /\ last.status = "ok"
    /\ Len(last.effects) = 1
    /\ Message(1) = M4AckBundles("TwoBytes", <<ALARM_TWO_BYTES>>)
    /\ 0 \in DOMAIN pre.bundles
    /\ pre.bundles[0] = <<Bundle("t1", 1), Bundle("t2", 0)>>
    /\ sidechain_number_to_bundles[0] = <<Bundle("t1", 0), Bundle("t2", 0)>>

----------------------------------------------------------------------------
(* Blocks with a transaction after the coinbase.  connect_block reads       *)
(* block.txdata[0] only, and the store has no table of Ctip values.         *)

OutPoint(txid, vout) == [txid |-> txid, vout |-> vout]

\* The output script OP_DRIVECHAIN <sidechain_number> OP_TRUE, and any other
\* script.
DrivechainScript(sn) == [encodes |-> "drivechain", sidechain_number |-> sn]
OtherScript == [encodes |-> "other"]

TxOut(value, script_pubkey) == [value |-> value, script_pubkey |-> script_pubkey]

\* The Ctip records that the tables db hold: no table of the store has Ctip
\* values, so there is none.
ctip_by_sidechain(db) == EmptyTable

\* The chain before the block: the treasury output of sidechain 7 is output
\* 0 of transaction t0, worth 100 sat; sidechain 5 has none.
ChainCtip ==
    Insert(EmptyTable, 7, [outpoint |-> OutPoint("t0", 0), value |-> 100])

TxOuts ==
    {TxOut(v, DrivechainScript(7)) : v \in {50, 100, 150}}
    \cup {TxOut(150, DrivechainScript(5)), TxOut(10, OtherScript)}

\* The transaction tx1 spends the treasury output or another output.
Transactions ==
    {[txid |-> "tx1", input |-> <<spent>>, output |-> o] :
        spent \in {OutPoint("t0", 0), OutPoint("t9", 0)},
        o \in SeqsUpTo(TxOuts, 2)}

CtipBlocks ==
    LET coinbases == {[output |-> <<>>],
                      [output |-> <<Script(M1ProposeSidechain(5, DataBB))>>],
                      [output |-> <<Garbage>>]}
    IN {[txdata |-> <<c>>] : c \in coinbases}
       \cup {[txdata |-> <<c, tx>>] : c \in coinbases, tx \in Transactions}

\* Sidechain 7 is activated, alone or with sidechain 5.
InitCtip ==
    /\ data_hash_to_sidechain_proposal = EmptyTable
    /\ sidechain_number_to_sidechain
          \in {Insert(EmptyTable, 7, Activated(7, DataAA)),
               Insert(Insert(EmptyTable, 7, Activated(7, DataAA)), 5, Activated(5, DataBB))}
    /\ sidechain_number_to_bundles = EmptyTable
    /\ overflow_checks \in BOOLEAN
    /\ nblocks = 0
    /\ pre = Database
    /\ last = NoRequest
    /\ handlers = NoHandlers
    /\ writer = NoWriter

ConnectBlockCtip ==
    /\ nblocks < MaxBlocks
    /\ \E block \in CtipBlocks :
          Served(HandleConnectBlock(Database, Encoded(block), Genesis + 1),
                 Encoded(block), Genesis + 1)

NextCtip == ConnectBlockCtip

SpecCtip == InitCtip /\ [][NextCtip]_vars

\* The transactions after the coinbase in the block of the latest request.
NonCoinbase ==
    IF last.bytes.decodes
    THEN {last.bytes.block.txdata[k] : k \in 2 .. Len(last.bytes.block.txdata)}
    ELSE {}

\* The positions (1-based) of the drivechain outputs of tx, all or for slot s.
DrivechainOutputs(tx) ==
    {k \in DOMAIN tx.output : tx.output[k].script_pubkey.encodes = "drivechain"}

DrivechainOutputsFor(tx, s) ==
    {k \in DrivechainOutputs(tx) : tx.output[k].script_pubkey.sidechain_number = s}

Spends(tx, outpoint) == \E k \in DOMAIN tx.input : tx.input[k] = outpoint

\* C14: CTIP precondition enforcement.  When a transaction after the
\* coinbase has a drivechain output for sidechain s but spends no input
\* equal to the current CTIP outpoint of s, or s has no CTIP, or the
\* transaction has two drivechain outputs, connect_block fails and the store
\* is unchanged.
C14_CtipPrecondition ==
    (Connected
       /\ \E tx \in NonCoinbase :
             \/ Cardinality(DrivechainOutputs(tx)) > 1
             \/ \E k \in DrivechainOutputs(tx) :
                   LET s == tx.output[k].script_pubkey.sidechain_number
                   IN \/ s \notin DOMAIN ChainCtip
                      \/ ~Spends(tx, ChainCtip[s].outpoint))
    => (last.status # "ok" /\ Database = pre)

\* C15: CTIP deposit transition.  When a transaction after the coinbase of
\* a connected block spends the current CTIP outpoint of activated sidechain
\* s and has a drivechain output for s at index vout with a value >= the old
\* CTIP value, then after connect_block the store holds for s the Ctip
\* ((tx.txid, vout), new value).
C15_CtipDeposit ==
    (Connected /\ last.status = "ok") =>
        \A tx \in NonCoinbase :
            \A s \in DOMAIN ChainCtip \cap DOMAIN pre.sidechain :
                (Spends(tx, ChainCtip[s].outpoint)
                   /\ Cardinality(DrivechainOutputs(tx)) = 1
                   /\ DrivechainOutputsFor(tx, s) # {})
                => \A k \in DrivechainOutputsFor(tx, s) :
                      tx.output[k].value >= ChainCtip[s].value
                      => /\ s \in DOMAIN ctip_by_sidechain(Database)
                         /\ ctip_by_sidechain(Database)[s]
                               = [outpoint |-> OutPoint(tx.txid, k - 1),
                                  value |-> tx.output[k].value]

----------------------------------------------------------------------------
(* Validator::get_coinbase_psbt, the coinbase assembler. *)

MaxEntries == 2     \* entries per list of a GetCoinbasePsbt request

\* A bytes field of the request that is meant to hold a hash.
Bytes(len, hash) == [len |-> len, hash |-> hash]

ProposeSidechainEntries ==
    {[sidechain_number |-> 5, data |-> DataAA], [sidechain_number |-> 261, data |-> DataBB]}

AckSidechainEntries ==
    {[sidechain_number |-> 5, data_hash |-> Bytes(32, "hAA")],
     [sidechain_number |-> 7, data_hash |-> Bytes(31, "hBB")]}

ProposeBundleEntries ==
    {[sidechain_number |-> 5, bundle_txid |-> Bytes(32, "t1")],
     [sidechain_number |-> 7, bundle_txid |-> Bytes(33, "t2")]}

\* Upvotes (u32) around the maxima of u8 and u16.
RequestUpvotes == {0, 1, U8 - 1, U8, U16 - 1, U16}

AckBundlesRequests ==
    {[present |-> FALSE]}
    \cup {[present |-> TRUE, tag |-> t, upvotes |-> <<>>] :
             t \in {"RepeatPrevious", "LeadingBy50"}}
    \cup {[present |-> TRUE, tag |-> "Upvotes", upvotes |-> u] :
             u \in SeqsUpTo(RequestUpvotes, MaxVector)}

Requests ==
    [propose_sidechains : SeqsUpTo(ProposeSidechainEntries, MaxEntries),
     ack_sidechains : SeqsUpTo(AckSidechainEntries, MaxEntries),
     propose_bundles : SeqsUpTo(ProposeBundleEntries, MaxEntries),
     ack_bundles : AckBundlesRequests]

\* `n as u8`
AsU8(n) == n % U8

\* bytes.as_slice().try_into() to a [u8; 32]
TryInto32(bytes) == [ok |-> bytes.len = 32, value |-> bytes.hash]

\* The width test reading the maximum of u8 as a two-byte value.
two_bytes_from_u8_max(upvotes) == \E k \in DOMAIN upvotes : upvotes[k] >= U8 - 1

\* two_bytes after the loop over the upvotes: some upvote is above u8::MAX.
two_bytes(upvotes) == \E k \in DOMAIN upvotes : upvotes[k] > U8 - 1

\* panic!("upvote too large")
upvote_too_large(upvotes) == \E k \in DOMAIN upvotes : upvotes[k] > U16 - 1

\* upvote.try_into() to an integer type of the given size: the value, when
\* it fits.
TryInto(upvote, size) == [ok |-> upvote < size, value |-> upvote]

\* The M4 message for the ack_bundles of a request.  Every try_into() of the
\* two maps succeeds, the upvotes having passed the tests of the loop.
AckBundlesMessage(ack_bundles) ==
    IF ack_bundles.tag = "RepeatPrevious" THEN M4AckBundles("RepeatPrevious", <<>>)
    ELSE IF ack_bundles.tag = "LeadingBy50" THEN M4AckBundles("LeadingBy50", <<>>)
    ELSE IF two_bytes(ack_bundles.upvotes)
    THEN M4AckBundles("TwoBytes",
             [k \in DOMAIN ack_bundles.upvotes |-> TryInto(ack_bundles.upvotes[k], U16).value])
    ELSE M4AckBundles("OneByte",
             [k \in DOMAIN ack_bundles.upvotes |-> TryInto(ack_bundles.upvotes[k], U8).value])

ProposeSidechainMessages(request) ==
    [k \in DOMAIN request.propose_sidechains |->
        M1ProposeSidechain(AsU8(request.propose_sidechains[k].sidechain_number),
                           request.propose_sidechains[k].data)]

AckSidechainMessages(request) ==
    [k \in DOMAIN request.ack_sidechains |->
        M2AckSidechain(AsU8(request.ack_sidechains[k].sidechain_number),
                       TryInto32(request.ack_sidechains[k].data_hash).value)]

ProposeBundleMessages(request) ==
    [k \in DOMAIN request.propose_bundles |->
        M3ProposeBundle(AsU8(request.propose_bundles[k].sidechain_number),
                        TryInto32(request.propose_bundles[k].bundle_txid).value)]

AckBundlesMessages(request) ==
    IF request.ack_bundles.present
    THEN <<AckBundlesMessage(request.ack_bundles)>>
    ELSE <<>>

\* The messages with the M4 pushed first.
Messages_acks_first(request) ==
    AckBundlesMessages(request) \o ProposeSidechainMessages(request)
        \o AckSidechainMessages(request) \o ProposeBundleMessages(request)

\* messages, in the order of the pushes.
Messages(request) ==
    ProposeSidechainMessages(request) \o AckSidechainMessages(request)
        \o ProposeBundleMessages(request) \o AckBundlesMessages(request)

\* The unwrap() and panic!() calls that the request trips.
AssemblerPanics(request) ==
    \/ \E k \in DOMAIN request.ack_sidechains :
          ~TryInto32(request.ack_sidechains[k].data_hash).ok
    \/ \E k \in DOMAIN request.propose_bundles :
          ~TryInto32(request.propose_bundles[k].bundle_txid).ok
    \/ /\ request.ack_bundles.present
       /\ request.ack_bundles.tag = "Upvotes"
       /\ \/ upvote_too_large(request.ack_bundles.upvotes)
          \/ \E k \in DOMAIN request.ack_bundles.upvotes :
                ~TryInto(request.ack_bundles.upvotes[k],
                         IF two_bytes(request.ack_bundles.upvotes) THEN U16 ELSE U8).ok

CoinbaseTransaction(messages) ==
    [version |-> 2,
     lock_time |-> [blocks |-> 0],
     input |-> <<>>,
     output |-> [k \in DOMAIN messages |-> TxOut(0, Script(messages[k]))]]

\* Transaction::consensus_encode: the bytes of the transaction.
consensus_encode(transaction) == [decodes |-> TRUE, transaction |-> transaction]

get_coinbase_psbt(request) ==
    IF AssemblerPanics(request)
    THEN [response |-> "panic"]
    ELSE [response |-> "ok",
          psbt |-> consensus_encode(CoinbaseTransaction(Messages(request)))]

InitAssembler ==
    /\ data_hash_to_sidechain_proposal = EmptyTable
    /\ sidechain_number_to_sidechain = EmptyTable
    /\ sidechain_number_to_bundles = EmptyTable
    /\ overflow_checks \in BOOLEAN
    /\ nblocks = 0
    /\ pre = Database
    /\ last = NoRequest
    /\ handlers = NoHandlers
    /\ writer = NoWriter

Assembled(r, request) ==
    /\ last' = [op |-> "GetCoinbasePsbt", request |-> request, reply |-> r]
    /\ UNCHANGED <<data_hash_to_sidechain_proposal, sidechain_number_to_sidechain,
                   sidechain_number_to_bundles, overflow_checks, nblocks, pre,
                   handlers, writer>>

\* The handler keeps no state: a behaviour serves one request.
GetCoinbasePsbt ==
    /\ last.op = "none"
    /\ \E request \in Requests : Assembled(get_coinbase_psbt(request), request)

NextAssembler == GetCoinbasePsbt

SpecAssembler == InitAssembler /\ [][NextAssembler]_vars

\* Reading the latest GetCoinbasePsbt request.
Requested == last.op = "GetCoinbasePsbt"
Answered == Requested /\ last.reply.response = "ok"
ReturnedTransaction == last.reply.psbt.transaction

WellFormedHashes(request) ==
    /\ \A k \in DOMAIN request.ack_sidechains : request.ack_sidechains[k].data_hash.len = 32
    /\ \A k \in DOMAIN request.propose_bundles : request.propose_bundles[k].bundle_txid.len = 32

UpvotesRequested(request) ==
    request.ack_bundles.present /\ request.ack_bundles.tag = "Upvotes"

\* C16: the assembler never crashes on bad input.  Every GetCoinbasePsbt
\* request is answered with an encoded transaction or with a validation
\* error; an upvote above 0xFFFF, or a data_hash or bundle_txid that is not
\* 32 bytes long, yields a validation error and not a panic.
C16_NeverCrashes ==
    Requested =>
        /\ last.reply.response \in {"ok", "error"}
        /\ (~WellFormedHashes(last.request)
              \/ (UpvotesRequested(last.request)
                    /\ \E k \in DOMAIN last.request.ack_bundles.upvotes :
                          last.request.ack_bundles.upvotes[k] > 65535))
           => last.reply.response = "error"

\* C17: assembler width choice.  A request whose ack_bundles is tagged
\* Upvotes with every value <= 0xFFFF is answered (when its hashes are 32
\* bytes long), and the answer's last output is an M4 OneByte when every
\* upvote is <= 0xFF and an M4 TwoBytes otherwise, whose vector has the
\* length of the request's and the same value at every position.
C17_WidthChoice ==
    (Requested /\ UpvotesRequested(last.request)
       /\ \A k \in DOMAIN last.request.ack_bundles.upvotes :
             last.request.ack_bundles.upvotes[k] <= 65535)
    => /\ WellFormedHashes(last.request) => Answered
       /\ Answered =>
             LET output == ReturnedTransaction.output
                 upvotes == last.request.ack_bundles.upvotes
                 wide == \E k \in DOMAIN upvotes : upvotes[k] > 255
             IN /\ Len(output) >= 1
                /\ output[Len(output)].script_pubkey
                      = Script(M4AckBundles(IF wide THEN "TwoBytes" ELSE "OneByte", upvotes))

\* The upvotes <<0, 256>> were answered with a TwoBytes vector <<0, 256>>.
C17_Witness ==
    /\ Answered
    /\ UpvotesRequested(last.request)
    /\ last.request.ack_bundles.upvotes = <<0, 256>>
    /\ Len(ReturnedTransaction.output) = 1
    /\ ReturnedTransaction.output[1].script_pubkey
          = Script(M4AckBundles("TwoBytes", <<0, 256>>))

\* The message an entry of the request stands for.
RequestedMessages ==
    LET r == last.request
    IN [k \in DOMAIN r.propose_sidechains |->
           M1ProposeSidechain(r.propose_sidechains[k].sidechain_number % 256,
                              r.propose_sidechains[k].data)]
       \o [k \in DOMAIN r.ack_sidechains |->
              M2AckSidechain(r.ack_sidechains[k].sidechain_number % 256,
                             r.ack_sidechains[k].data_hash.hash)]
       \o [k \in DOMAIN r.propose_bundles |->
              M3ProposeBundle(r.propose_bundles[k].sidechain_number % 256,
                              r.propose_bundles[k].bundle_txid.hash)]

\* C18: assembler output shape and order.  The transaction of every accepted
\* request has no inputs, version 2, locktime height 0 and exactly one
\* zero-value output per requested message (|propose_sidechains| +
\* |ack_sidechains| + |propose_bundles| + 1 if ack_bundles is present), the
\* outputs in the order of the request: each list in request order, the
\* three lists one after the other, ack_bundles last.
C18_ShapeAndOrder ==
    Answered =>
        LET tx == ReturnedTransaction
            r == last.request
            n == Len(r.propose_sidechains) + Len(r.ack_sidechains) + Len(r.propose_bundles)
        IN /\ tx.input = <<>>
           /\ tx.version = 2
           /\ tx.lock_time = [blocks |-> 0]
           /\ Len(tx.output) = n + (IF r.ack_bundles.present THEN 1 ELSE 0)
           /\ \A k \in DOMAIN tx.output : tx.output[k].value = 0
           /\ \A k \in 1 .. n : tx.output[k].script_pubkey = Script(RequestedMessages[k])
           /\ r.ack_bundles.present
              => /\ tx.output[n + 1].script_pubkey.encodes = "message"
                 /\ tx.output[n + 1].script_pubkey.message.type = "M4AckBundles"

\* An accepted request with two proposals, an ack, a bundle proposal and
\* RepeatPrevious: five outputs in that order.
C18_Witness ==
    /\ Answered
    /\ Len(last.request.propose_sidechains) = 2
    /\ last.request.propose_sidechains[1] # last.request.propose_sidechains[2]
    /\ Len(last.request.ack_sidechains) = 1
    /\ Len(last.request.propose_bundles) = 1
    /\ last.request.ack_bundles.present
    /\ last.request.ack_bundles.tag = "RepeatPrevious"
    /\ Len(ReturnedTransaction.output) = 5
    /\ ReturnedTransaction.output[1].script_pubkey.message
          = M1ProposeSidechain(last.request.propose_sidechains[1].sidechain_number % 256,
                               last.request.propose_sidechains[1].data)
    /\ ReturnedTransaction.output[3].script_pubkey.message.type = "M2AckSidechain"
    /\ ReturnedTransaction.output[4].script_pubkey.message.type = "M3ProposeBundle"
    /\ ReturnedTransaction.output[5].script_pubkey.message
          = M4AckBundles("RepeatPrevious", <<>>)

----------------------------------------------------------------------------
\* C19: facade error wrapping.  When the ConnectBlock handler receives bytes
\* that do not decode as a block, or the applier returns an error (a coinbase
\* parse error), the handler answers the caller with an error status: it
\* never panics, and it never answers success for a block that was not
\* applied.
C19_ErrorStatus ==
    Connected =>
        /\ last.response # "panic"
        /\ last.status \in {"decode_error", "parse_error"} => last.response = "error"
        /\ last.response = "ok" => last.status = "ok"

----------------------------------------------------------------------------
(* Two ConnectBlock handlers run concurrently on the threads of the        *)
(* request dispatcher.  A handler decodes its block, calls begin_write,    *)
(* which waits while another write transaction is open, runs the coinbase  *)
(* loop on the tables of its write transaction, and commits; an error      *)
(* return or a panic drops the write transaction.                          *)

Handlers == {1, 2}

IdleHandler ==
    [pc |-> "idle", bytes |-> Undecodable, height |-> 0, seen |-> EmptyDatabase,
     txn |-> EmptyDatabase, status |-> "none", response |-> "none",
     behind |-> {}]

WriterBlocks ==
    {[txdata |-> <<>>]}
    \cup {[txdata |-> <<[output |-> o]>>] :
             o \in {<<Script(M1ProposeSidechain(5, DataAA))>>,
                    <<Script(M1ProposeSidechain(7, DataAA))>>,
                    <<Script(M2AckSidechain(5, "hAA"))>>,
                    <<Script(M1ProposeSidechain(5, DataAA)), Script(M2AckSidechain(5, "hAA"))>>,
                    <<Script(M2AckSidechain(5, "hAA")), Garbage>>,
                    <<Script(M2AckSidechain(5, "hAA")),
                      Script(M4AckBundles("RepeatPrevious", <<>>))>>}}

WriterBytes == {Encoded(b) : b \in WriterBlocks} \cup {Undecodable}

WriterHeights == {Genesis, Genesis + 1}

InitWriters ==
    /\ data_hash_to_sidechain_proposal
          \in {EmptyTable}
              \cup {Insert(EmptyTable, "hAA",
                           [sidechain_number |-> 5, data |-> DataAA, vote_count |-> v,
                            proposal_height |-> Genesis]) : v \in {0, USED_THRESHOLD}}
    /\ sidechain_number_to_sidechain = EmptyTable
    /\ sidechain_number_to_bundles = EmptyTable
    /\ overflow_checks \in BOOLEAN
    /\ nblocks = 0
    /\ pre = Database
    /\ last = NoRequest
    /\ handlers = [h \in Handlers |-> IdleHandler]
    /\ writer = NoWriter

\* begin_write returns when no other write transaction is open.
WriterFree(w) == w = NoWriter

\* The tables read through a snapshot taken when the request arrived.
WriteTxnTables_stale(committed, seen) == seen

\* The tables the handler reads and writes: every table is opened from the
\* write transaction, which starts from the tables committed when begin_write
\* returns.
WriteTxnTables(committed, seen) == committed

\* The handler up to begin_write: the decode and block.txdata[0] panic.
Received(bytes, height, db) ==
    IF ~consensus_decode(bytes).ok
    THEN [IdleHandler EXCEPT !.pc = "done", !.bytes = bytes, !.height = height,
                             !.status = "decode_error", !.response = "panic"]
    ELSE IF Len(consensus_decode(bytes).block.txdata) = 0
    THEN [IdleHandler EXCEPT !.pc = "done", !.bytes = bytes, !.height = height,
                             !.status = "panic", !.response = "panic"]
    ELSE [IdleHandler EXCEPT !.pc = "begin", !.bytes = bytes, !.height = height,
                             !.seen = db]

Receive(h) ==
    /\ handlers[h].pc = "idle"
    /\ \E bytes \in WriterBytes, height \in WriterHeights :
          handlers' = [handlers EXCEPT ![h] = Received(bytes, height, Database)]
    /\ UNCHANGED <<data_hash_to_sidechain_proposal, sidechain_number_to_sidechain,
                   sidechain_number_to_bundles, overflow_checks, nblocks, pre, last,
                   writer>>

\* The handler's call of Bip300::connect_block opened a write transaction and
\* ended without committing it.
FailedWriter(handler) ==
    /\ handler.pc = "done" /\ handler.response = "panic"
    /\ handler.bytes.decodes
    /\ Len(handler.bytes.block.txdata) > 0

\* behind records the handlers whose failed call had ended when begin_write
\* returned.
BeginWrite(h) ==
    /\ handlers[h].pc = "begin"
    /\ WriterFree(writer)
    /\ writer' = h
    /\ handlers' = [handlers EXCEPT
                       ![h].pc = "loop",
                       ![h].txn = WriteTxnTables(Database, handlers[h].seen),
                       ![h].behind = {g \in Handlers : FailedWriter(handlers[g])}]
    /\ UNCHANGED <<data_hash_to_sidechain_proposal, sidechain_number_to_sidechain,
                   sidechain_number_to_bundles, overflow_checks, nblocks, pre, last>>

\* The handler after the coinbase loop ended with outcome r.
Looped(handler, r) ==
    [handler EXCEPT !.pc = IF r.status = "ok" THEN "commit" ELSE "abort",
                    !.txn = r.txn,
                    !.status = r.status]

Loop(h) ==
    /\ handlers[h].pc = "loop"
    /\ handlers' =
          [handlers EXCEPT ![h] =
              Looped(handlers[h],
                     ProcessOutputs(handlers[h].txn,
                                    handlers[h].bytes.block.txdata[1].output, 1,
                                    handlers[h].height, <<>>, <<>>))]
    /\ UNCHANGED <<data_hash_to_sidechain_proposal, sidechain_number_to_sidechain,
                   sidechain_number_to_bundles, overflow_checks, nblocks, pre, last,
                   writer>>

\* write_txn.commit(): the tables of the write transaction are published and
\* the writer is released.
Commit(h) ==
    /\ handlers[h].pc = "commit"
    /\ data_hash_to_sidechain_proposal' = handlers[h].txn.proposal
    /\ sidechain_number_to_sidechain' = handlers[h].txn.sidechain
    /\ sidechain_number_to_bundles' = handlers[h].txn.bundles
    /\ writer' = NoWriter
    /\ handlers' = [handlers EXCEPT ![h].pc = "done", ![h].response = "ok"]
    /\ UNCHANGED <<overflow_checks, nblocks, pre, last>>

\* The write transaction kept alive past the end of the call: the writer
\* stays taken.
DropWriteTxn_leaks(w) == w

\* write_txn is a local of connect_block: leaving the function by return or
\* by unwinding drops it, and the drop of an open write transaction aborts
\* it and releases the writer.
DropWriteTxn(w) == NoWriter

\* The error return or the panic: write_txn is dropped, which releases the
\* writer, and the unwrap() of the handler panics.
Abort(h) ==
    /\ handlers[h].pc = "abort"
    /\ writer' = DropWriteTxn(writer)
    /\ handlers' = [handlers EXCEPT ![h].pc = "done", ![h].response = "panic"]
    /\ UNCHANGED <<data_hash_to_sidechain_proposal, sidechain_number_to_sidechain,
                   sidechain_number_to_bundles, overflow_checks, nblocks, pre, last>>

NextWriters ==
    \E h \in Handlers :
        Receive(h) \/ BeginWrite(h) \/ Loop(h) \/ Commit(h) \/ Abort(h)

SpecWriters == InitWriters /\ [][NextWriters]_vars

\* The handlers that hold an open write transaction.
Writing == {h \in DOMAIN handlers : handlers[h].pc \in {"loop", "commit", "abort"}}

\* The committed tables after the request of handler a and then the request
\* of handler b are served one after the other on the tables db.
OneAfterTheOther(db, a, b) ==
    HandleConnectBlock(
        HandleConnectBlock(db, handlers[a].bytes, handlers[a].height).db,
        handlers[b].bytes, handlers[b].height).db

\* C20: single-writer serialization.  The write transactions of two
\* concurrent ConnectBlock handlers never overlap, and when both handlers
\* have finished the committed tables are those of applying the two blocks
\* one after the other in one of the two orders: no mutations interleave and
\* no update is lost.
C20_Serialized ==
    /\ Cardinality(Writing) <= 1
    /\ (handlers # NoHandlers /\ \A h \in Handlers : handlers[h].pc = "done")
       => \/ Database = OneAfterTheOther(pre, 1, 2)
          \/ Database = OneAfterTheOther(pre, 2, 1)

\* Both handlers committed an M2 for the same proposal, which has two votes
\* more; handler 2 had arrived before handler 1 committed.
C20_Witness ==
    /\ handlers # NoHandlers
    /\ \A h \in Handlers : handlers[h].pc = "done" /\ handlers[h].response = "ok"
    /\ "hAA" \in DOMAIN pre.proposal
    /\ "hAA" \in DOMAIN data_hash_to_sidechain_proposal
    /\ data_hash_to_sidechain_proposal["hAA"].vote_count = pre.proposal["hAA"].vote_count + 2
    /\ handlers[2].seen = pre
    /\ handlers[2].txn # handlers[1].txn

----------------------------------------------------------------------------
\* C21: an M2 that is skipped is a no-op.  An M2 whose data_hash is not a key
\* of the proposal table, or whose sidechain_number differs from the stored
\* proposal's, leaves all three tables as they were (no vote, no expiry, no
\* promotion), whatever the age of the proposal.
C21_SkippedM2 ==
    \A i \in Applied :
        (Message(i).type = "M2AckSidechain" /\ ~MatchingM2(i)) =>
            /\ After(i) = Before(i)
            /\ Effect(i) = "skipped"

\* An M2 named the hash of a stored proposal but another slot; the proposal
\* was past the maximum age of an empty slot and a vote would have expired
\* it, yet the committed tables are those before the block.
C21_Witness ==
    /\ Connected /\ last.status = "ok"
    /\ Len(Outputs) = 1 /\ Applied = {1}
    /\ Message(1).type = "M2AckSidechain"
    /\ Message(1).data_hash \in DOMAIN pre.proposal
    /\ pre.proposal[Message(1).data_hash].sidechain_number # Message(1).sidechain_number
    /\ Message(1).sidechain_number \notin DOMAIN pre.sidechain
    /\ GtU32(Age(pre.proposal[Message(1).data_hash]), UNUSED_MAX_AGE)
    /\ pre.proposal[Message(1).data_hash].vote_count < UNUSED_THRESHOLD
    /\ Database = pre

----------------------------------------------------------------------------
(* The concurrent handlers under the scheduling of the dispatcher: a       *)
(* handler that can take its next step takes it, and begin_write returns   *)
(* once the writer stays free.  The arrival of a request is not forced.    *)

FairWriters ==
    \A h \in Handlers :
        /\ WF_vars(BeginWrite(h))
        /\ WF_vars(Loop(h))
        /\ WF_vars(Commit(h))
        /\ WF_vars(Abort(h))

SpecWritersFair == InitWriters /\ [][NextWriters]_vars /\ FairWriters

\* The block of the handler is one connect_block applies to the end: every
\* coinbase output parses and none is an M4 variant left unimplemented.
ValidBlock(handler) ==
    \A i \in DOMAIN handler.bytes.block.txdata[1].output :
        LET parsed == parse_coinbase_script(handler.bytes.block.txdata[1].output[i])
        IN /\ parsed.ok
           /\ parsed.message.type = "M4AckBundles"
                 => parsed.message.variant \in {"OneByte", "TwoBytes"}

\* Handler a failed inside its write transaction (parse error or panic) and
\* handler b waits in begin_write with a valid block.
FailedAhead(a, b) ==
    /\ handlers[a].pc = "abort" \/ FailedWriter(handlers[a])
    /\ handlers[b].pc = "begin"
    /\ ValidBlock(handlers[b])

Committed(b) == handlers[b].pc = "done" /\ handlers[b].response = "ok"

\* C22: the writer is released on every exit path.  A handler that has ended
\* never holds the writer, and whenever a connect_block call has failed inside
\* its write transaction (parse error return, or panic at an unimplemented M4
\* variant) while another call with a valid block waits for the writer, that
\* call eventually acquires the writer and commits.
C22_WriterReleased ==
    /\ [](\A h \in Handlers : handlers[h].pc = "done" => writer # h)
    /\ \A a, b \in Handlers :
          a # b => (FailedAhead(a, b) ~> Committed(b))

\* Handler 1 failed at an unparsable output after an M2 and dropped its write
\* transaction; handler 2 acquired the writer after that and committed its
\* vote, which is the only one the store has.
C22_Witness ==
    /\ FailedWriter(handlers[1]) /\ handlers[1].status = "parse_error"
    /\ Committed(2)
    /\ handlers[2].behind = {1}
    /\ writer = NoWriter
    /\ "hAA" \in DOMAIN pre.proposal
    /\ "hAA" \in DOMAIN data_hash_to_sidechain_proposal
    /\ data_hash_to_sidechain_proposal["hAA"].vote_count = pre.proposal["hAA"].vote_count + 1

----------------------------------------------------------------------------
\* The messages the loop reached: those applied and the one it ended at.
Reached ==
    IF Connected
    THEN {i \in DOMAIN last.trace \cap DOMAIN Outputs :
             parse_coinbase_script(Outputs[i]).ok}
    ELSE {}

VotesBounded(proposals) ==
    \A k \in DOMAIN proposals : proposals[k].vote_count <= 13150

\* C23: the implicit bound of vote_count.  Every proposal of the proposal
\* table, committed or inside the write transaction after an M2 was fully
\* processed, has vote_count <= 13150, so the u16 increment of a matching M2
\* (at most 13150 + 1) never overflows.
C23_VoteBound ==
    /\ VotesBounded(data_hash_to_sidechain_proposal)
    /\ \A i \in Applied : MatchingM2(i) => VotesBounded(After(i).proposal)
    /\ \A i \in Reached : MatchingM2(i) => Stored(i).vote_count + 1 < U16

\* Two M2s in a block on a proposal with 13149 votes: the first left it
\* stored with 13150 votes, the second counted vote 13151, which promoted and
\* removed it; the block was committed.
C23_Witness ==
    /\ Connected /\ last.status = "ok"
    /\ Applied = {1, 2}
    /\ MatchingM2(1) /\ MatchingM2(2)
    /\ Message(1) = Message(2)
    /\ Stored(1).vote_count = 13149
    /\ Effect(1) = "voted" /\ Stored(2).vote_count = 13150
    /\ Effect(2) = "activated"
    /\ Message(2).data_hash \notin DOMAIN data_hash_to_sidechain_proposal

----------------------------------------------------------------------------
\* C24: the bundle table is never populated.  From a store without bundle
\* lists, the bundle table has no key after any connect_block, committed or
\* inside the write transaction, also after an activation; so every M3 and
\* every M4 OneByte / TwoBytes that runs leaves all tables as they were.
C24_NoBundles ==
    /\ DOMAIN sidechain_number_to_bundles = {}
    /\ \A i \in Applied :
          /\ DOMAIN After(i).bundles = {}
          /\ Message(i).type \in {"M3ProposeBundle", "M4AckBundles"}
                => After(i) = Before(i)

\* An M2 activated slot 5 and the M3 that followed it in the block proposed a
\* bundle for slot 5: it was skipped, and the committed bundle table is empty.
C24_Witness ==
    /\ Connected /\ last.status = "ok"
    /\ Applied = {1, 2}
    /\ Effect(1) = "activated"
    /\ Message(2).type = "M3ProposeBundle"
    /\ Message(2).sidechain_number \in DOMAIN Before(2).sidechain
    /\ Message(2).sidechain_number \notin DOMAIN pre.sidechain
    /\ sidechain_number_to_sidechain = Before(2).sidechain
    /\ DOMAIN sidechain_number_to_bundles = {}

----------------------------------------------------------------------------
\* C25: only a matching M2 removes a proposal.  A proposal stored before a
\* message, or before a block, is afterwards still stored and unchanged
\* unless the message, or a message of the block, is an M2 with its data_hash
\* and its sidechain_number; the height of the block plays no part, however
\* far it is past the proposal's maximum age.
C25_OnlyMatchingM2 ==
    /\ \A i \in Applied :
          \A k \in DOMAIN Before(i).proposal :
              (MatchingM2(i) /\ Message(i).data_hash = k)
              \/ (k \in DOMAIN After(i).proposal
                    /\ After(i).proposal[k] = Before(i).proposal[k])
    /\ Connected =>
          \A k \in DOMAIN pre.proposal :
              (\E i \in Applied : MatchingM2(i) /\ Message(i).data_hash = k)
              \/ (k \in DOMAIN data_hash_to_sidechain_proposal
                    /\ data_hash_to_sidechain_proposal[k] = pre.proposal[k])

\* A block 26301 blocks after the proposal of DataAA for an empty slot, which
\* has no vote, proposed DataBB and acked it; the block was committed and the
\* proposal of DataAA is stored as before.
C25_Witness ==
    /\ Connected /\ last.status = "ok"
    /\ DOMAIN pre.proposal = {"hAA"}
    /\ pre.proposal["hAA"].vote_count = 0
    /\ pre.proposal["hAA"].sidechain_number \notin DOMAIN pre.sidechain
    /\ last.height - pre.proposal["hAA"].proposal_height = USED_MAX_AGE + 1
    /\ Applied = {1, 2}
    /\ Message(1).type = "M1ProposeSidechain" /\ Effect(1) = "proposed"
    /\ MatchingM2(2) /\ Message(2).data_hash = "hBB" /\ Effect(2) = "voted"
    /\ DOMAIN data_hash_to_sidechain_proposal = {"hAA", "hBB"}
    /\ data_hash_to_sidechain_proposal["hAA"] = pre.proposal["hAA"]

----------------------------------------------------------------------------
(* The assembler and the applier together: a GetCoinbasePsbt request for   *)
(* upvotes is answered with a coinbase transaction, and the block mined     *)
(* with that coinbase is connected to a store that holds bundle lists.     *)

\* Requested upvotes: indices of a short list, and the values around the
\* sentinels and the maxima of either width.
FidelityUpvotes == {0, 1, 2, U8 - 2, U8 - 1, U8, U16 - 2, U16 - 1, U16}

FidelityRequests ==
    {[propose_sidechains |-> <<>>, ack_sidechains |-> <<>>, propose_bundles |-> <<>>,
      ack_bundles |-> [present |-> TRUE, tag |-> "Upvotes", upvotes |-> u]] :
        u \in SeqsUpTo(FidelityUpvotes, MaxVector)}

GetCoinbasePsbtUpvotes ==
    /\ last.op = "none"
    /\ \E request \in FidelityRequests : Assembled(get_coinbase_psbt(request), request)

\* The block whose coinbase is the transaction: connect_block reads the
\* script_pubkey of each of its outputs.
MinedBlock(transaction) ==
    [txdata |-> <<[output |-> [k \in DOMAIN transaction.output |->
                                  transaction.output[k].script_pubkey]]>>]

\* The state after the ConnectBlock request with outcome r for the block
\* assembled for the given request.
ServedAssembled(r, bytes, height, request) ==
    /\ data_hash_to_sidechain_proposal' = r.db.proposal
    /\ sidechain_number_to_sidechain' = r.db.sidechain
    /\ sidechain_number_to_bundles' = r.db.bundles
    /\ pre' = Database
    /\ last' = [op |-> "ConnectBlock", bytes |-> bytes, height |-> height,
                status |-> r.status, response |-> r.response, txn |-> r.txn,
                trace |-> r.trace, effects |-> r.effects, request |-> request]
    /\ nblocks' = nblocks + 1
    /\ UNCHANGED <<overflow_checks, handlers, writer>>

ConnectAssembled ==
    /\ Answered
    /\ nblocks = 0
    /\ ServedAssembled(
          HandleConnectBlock(Database, Encoded(MinedBlock(ReturnedTransaction)), Genesis),
          Encoded(MinedBlock(ReturnedTransaction)), Genesis, last.request)

NextFidelity == GetCoinbasePsbtUpvotes \/ ConnectAssembled

SpecFidelity == InitBundles /\ [][NextFidelity]_vars

\* The list of bundles after an upvote of the bundle at a 0-based index; an
\* index past the list upvotes nothing.
Upvoted(bundles, index) ==
    IF index < Len(bundles)
    THEN [bundles EXCEPT ![index + 1].vote_count = @ + 1]
    ELSE bundles

====
